---- MODULE Spec2Model ----
(***************************************************************************)
(* Model of the argocd-operator convergence pattern:                        *)
(*   - the store helpers of pkg/networking/service.go and                   *)
(*     pkg/workloads/statefulset.go (Get / Create / Update / Delete),       *)
(*   - the builders RequestService / RequestStatefulSet with their          *)
(*     mutation hooks,                                                      *)
(*   - the reconcilers reconcileRoleBinding (applicationset) and            *)
(*     reconcileHAConfigMap (redis).                                        *)
(*   - the version API flag and the cluster config namespaces of package    *)
(*     argocd.                                                              *)
(* The cluster store is a function from object keys to objects.  Every      *)
(* reconcile is one atomic action; the failures of the store client are an  *)
(* input of the action (the set F of fault points that fail in this call).  *)
(***************************************************************************)
EXTENDS Integers, Sequences, FiniteSets, TLC

VARIABLES
    store,      \* the cluster: key -> object, Nil when the object is absent
    last,       \* record of the most recent reconcile call (history variable)
    hist,       \* window over the most recent events (history variable)
    built,      \* result of the most recent Request* (Build) call
    prevBuilt,  \* name selection of the Build call before it
    routeAPIFound,  \* package argocd: whether the Route API is available
    cl,         \* package argocd tests: the objects of the test client
    svc,        \* package argocd tests: the service handed to ensureAutoTLSAnnotation
    versionAPIFound,  \* package argocd: whether the cluster version API is present
    environ     \* the value of the cluster config namespaces environment variable

argocdVars == <<routeAPIFound, cl, svc>>

clusterVars == <<versionAPIFound, environ>>

vars == <<store, last, hist, built, prevBuilt, routeAPIFound, cl, svc, versionAPIFound, environ>>

----------------------------------------------------------------------------
(* Bounds *)

\* number of fault points that may fail within one reconcile call
MaxFaults == 2
\* number of successive reconcile calls kept in hist
MaxHist == 3
\* number of events kept in hist by the end-to-end specification
MaxScenario == 6
\* longest list of mutation hooks in a request
MaxHooks == 3
\* number of steps of the route tests kept in hist
MaxRouteHist == 5
\* longest value of the cluster config namespaces variable, in tokens
MaxEnvLen == 3

----------------------------------------------------------------------------
(* Errors of the store client *)

NilErr == "nil"
NotFound == "NotFound"
AlreadyExists == "AlreadyExists"
OtherErr == "Other"
\* the wrapped error of a Build whose mutations could not be applied
MutationFailed == "MutationFailed"

IsNotFound(err) == err = NotFound

\* the absent object / nil pointer
Nil == [kind |-> "nil"]

----------------------------------------------------------------------------
(* Identities *)

InstanceName == "cd1"
InstanceNamespace == "argocd"
resourceName == "cd1-applicationset-controller"
ArgoCDRedisHAConfigMapName == "argocd-redis-ha-configmap"
component == "redis"

Key(kind, name, namespace) == [kind |-> kind, name |-> name, namespace |-> namespace]

saKey == Key("ServiceAccount", resourceName, InstanceNamespace)
nsKey == Key("Namespace", InstanceNamespace, "")
rbKey == Key("RoleBinding", resourceName, InstanceNamespace)
roleKey == Key("Role", resourceName, InstanceNamespace)
cmKey == Key("ConfigMap", ArgoCDRedisHAConfigMapName, InstanceNamespace)
\* the Service and the StatefulSet of the redis component
svcKey == Key("Service", "cd1-redis", InstanceNamespace)
stsKey == Key("StatefulSet", "cd1-redis", InstanceNamespace)

StoreKeys == {saKey, nsKey, rbKey, roleKey, cmKey, svcKey, stsKey}
ChildKeys == {rbKey, roleKey, cmKey}

KeyOf(obj) == Key(obj.kind, obj.Name, obj.Namespace)

\* the owner reference SetControllerReference records on a child
InstanceRef == <<[Kind |-> "ArgoCD", Name |-> InstanceName, Controller |-> TRUE]>>
NoOwner == <<>>
\* the owner reference of a child that some other instance controls
ForeignOwner == <<[Kind |-> "ArgoCD", Name |-> "cd2", Controller |-> TRUE]>>

----------------------------------------------------------------------------
(* Store client (controller-runtime client.Client).  A context c carries    *)
(* the store and the calls issued so far; F is the set of fault points at   *)
(* which the client fails in this reconcile call.                           *)

RoleBindingFaultPoints ==
    {"GetServiceAccount", "GetNamespace", "Get", "SetControllerReference",
     "Create", "Update.Get", "Update", "Delete.Get", "Delete", "Delete.Gone"}

ConfigMapFaultPoints ==
    {"RequestConfigMap", "SetControllerReference", "Get", "Create", "Update.Get", "Update"}

FaultSets(points) == {F \in SUBSET points : Cardinality(F) <= MaxFaults}

Ctx(st) == [store |-> st, calls |-> <<>>, err |-> NilErr, obj |-> Nil]

Call(op, key, err) == [op |-> op, key |-> key, err |-> err]

Logged(c, op, key, err) == Append(c.calls, Call(op, key, err))

ClientGet(c, key, point, F) ==
    LET err == IF point \in F THEN OtherErr
               ELSE IF c.store[key] = Nil THEN NotFound ELSE NilErr
    IN [store |-> c.store,
        calls |-> Logged(c, "client.Get", key, err),
        err   |-> err,
        obj   |-> IF err = NilErr THEN c.store[key] ELSE Nil]

ClientCreate(c, obj, F) ==
    LET key == KeyOf(obj)
        err == IF "Create" \in F THEN OtherErr
               ELSE IF c.store[key] # Nil THEN AlreadyExists ELSE NilErr
    IN [store |-> IF err = NilErr THEN [c.store EXCEPT ![key] = obj] ELSE c.store,
        calls |-> Logged(c, "client.Create", key, err),
        err   |-> err,
        obj   |-> obj]

ClientUpdate(c, obj, F) ==
    LET key == KeyOf(obj)
        err == IF "Update" \in F THEN OtherErr
               ELSE IF c.store[key] = Nil THEN NotFound ELSE NilErr
    IN [store |-> IF err = NilErr THEN [c.store EXCEPT ![key] = obj] ELSE c.store,
        calls |-> Logged(c, "client.Update", key, err),
        err   |-> err,
        obj   |-> obj]

\* "Delete.Gone": another actor removed the object after the helper's Get
ClientDelete(c, obj, F) ==
    LET key == KeyOf(obj)
        err == IF "Delete" \in F THEN OtherErr
               ELSE IF "Delete.Gone" \in F \/ c.store[key] = Nil THEN NotFound
               ELSE NilErr
    IN [store |-> IF err \in {NilErr, NotFound} THEN [c.store EXCEPT ![key] = Nil]
                  ELSE c.store,
        calls |-> Logged(c, "client.Delete", key, err),
        err   |-> err,
        obj   |-> Nil]

----------------------------------------------------------------------------
(* Store helpers, pkg/networking/service.go (pkg/workloads/statefulset.go   *)
(* repeats them for StatefulSets).  The key stands for (kind, name,         *)
(* namespace) of the object the helper is instantiated for.                 *)

GetService(c, key, point, F) == ClientGet(c, key, point, F)

CreateService(c, service, F) == ClientCreate(c, service, F)

\* mutant: the error of client.Update is dropped
UpdateService_SwallowsError(c, service, F) ==
    LET g == GetService(c, KeyOf(service), "Update.Get", F)
    IN IF g.err # NilErr THEN g
       ELSE [ClientUpdate(g, service, F) EXCEPT !.err = NilErr]

\* mutant: a failed update is attempted a second time
UpdateService_RetriesUpdate(c, service, F) ==
    LET g == GetService(c, KeyOf(service), "Update.Get", F)
        u == ClientUpdate(g, service, F)
    IN IF g.err # NilErr THEN g
       ELSE IF u.err # NilErr THEN ClientUpdate(u, service, F)
       ELSE u

\* mutant: an object that is not found is created
UpdateService_CreatesMissing(c, service, F) ==
    LET g == GetService(c, KeyOf(service), "Update.Get", F)
    IN IF g.err # NilErr
       THEN IF IsNotFound(g.err) THEN ClientCreate(g, service, F) ELSE g
       ELSE ClientUpdate(g, service, F)

UpdateService(c, service, F) ==
    LET g == GetService(c, KeyOf(service), "Update.Get", F)
    IN IF g.err # NilErr THEN g
       ELSE ClientUpdate(g, service, F)

\* mutant: the object is fetched but never deleted
DeleteService_GetOnly(c, key, F) ==
    LET g == GetService(c, key, "Delete.Get", F)
    IN IF g.err # NilErr
       THEN IF ~IsNotFound(g.err) THEN g ELSE [g EXCEPT !.err = NilErr]
       ELSE g

DeleteService(c, key, F) ==
    LET g == GetService(c, key, "Delete.Get", F)
    IN IF g.err # NilErr
       THEN IF ~IsNotFound(g.err) THEN g ELSE [g EXCEPT !.err = NilErr]
       ELSE ClientDelete(g, g.obj, F)

----------------------------------------------------------------------------
(* Store helpers, pkg/workloads/statefulset.go *)

GetStatefulSet(c, key, point, F) == ClientGet(c, key, point, F)

CreateStatefulSet(c, StatefulSet, F) == ClientCreate(c, StatefulSet, F)

UpdateStatefulSet(c, StatefulSet, F) ==
    LET g == GetStatefulSet(c, KeyOf(StatefulSet), "Update.Get", F)
    IN IF g.err # NilErr THEN g
       ELSE ClientUpdate(g, StatefulSet, F)

DeleteStatefulSet(c, key, F) ==
    LET g == GetStatefulSet(c, key, "Delete.Get", F)
    IN IF g.err # NilErr
       THEN IF ~IsNotFound(g.err) THEN g ELSE [g EXCEPT !.err = NilErr]
       ELSE ClientDelete(g, g.obj, F)

----------------------------------------------------------------------------
(* pkg/argoutil: names, default labels and annotations, map merge *)

GeneratedNames ==
    [p \in {"cd1", "cd2"} \X {"redis", "server"} |->
        CASE p = <<"cd1", "redis">>  -> "cd1-redis"
          [] p = <<"cd1", "server">> -> "cd1-server"
          [] p = <<"cd2", "redis">>  -> "cd2-redis"
          [] p = <<"cd2", "server">> -> "cd2-server"]

GenerateResourceName(instanceName, comp) == GeneratedNames[<<instanceName, comp>>]

EmptyMap == [k \in {} |-> ""]

LabelsForCluster(instanceName, comp) ==
    [k \in {"app.kubernetes.io/instance", "app.kubernetes.io/component",
            "app.kubernetes.io/part-of"} |->
        CASE k = "app.kubernetes.io/instance"  -> instanceName
          [] k = "app.kubernetes.io/component" -> comp
          [] k = "app.kubernetes.io/part-of"   -> "argocd"]

AnnotationsForCluster(instanceName, instanceNamespace) ==
    [k \in {"argocds.argoproj.io/name", "argocds.argoproj.io/namespace"} |->
        IF k = "argocds.argoproj.io/name" THEN instanceName ELSE instanceNamespace]

\* the maps handed to MergeMaps as the call leaves them: it builds a new map
MergeMapsInputs(a, b) == <<a, b>>

\* later maps win on a key collision; the inputs are values and are not changed
MergeMaps(a, b) ==
    [k \in DOMAIN a \cup DOMAIN b |-> IF k \in DOMAIN b THEN b[k] ELSE a[k]]

----------------------------------------------------------------------------
(* Mutation hooks (pkg/mutation.MutateFunc).  A hook is identified by its   *)
(* position in the request; it either fails, leaving the object alone, or   *)
(* records its effect in the object's Spec.                                 *)

Hook(id, fails) == [id |-> id, fails |-> fails]

\* hook errors are named by the hook; 0 is the nil error
NoHookErr == 0
HookErr(h) == h.id

mutation(h, obj) ==
    [obj |-> IF h.fails THEN obj ELSE [obj EXCEPT !.Spec = Append(@, h.id)],
     err |-> IF h.fails THEN HookErr(h) ELSE NoHookErr]

NilError == [msg |-> "", cause |-> NoHookErr]

Errorf(msg, cause) == [msg |-> msg, cause |-> cause]

\* the state of the loop over request.Mutations
Loop(obj) == [obj |-> obj, mutationErr |-> NoHookErr, invoked |-> <<>>]

\* mutant: the loop stops applying hooks after the first failure
ApplyMutation_ShortCircuit(l, h) ==
    IF l.mutationErr # NoHookErr THEN l
    ELSE LET r == mutation(h, l.obj)
         IN [obj         |-> r.obj,
             mutationErr |-> r.err,
             invoked     |-> Append(l.invoked, h.id)]

\* one iteration of the loop: run the hook, remember its error
ApplyMutation(l, h) ==
    LET r == mutation(h, l.obj)
    IN [obj         |-> r.obj,
        mutationErr |-> IF r.err # NoHookErr THEN r.err ELSE l.mutationErr,
        invoked     |-> Append(l.invoked, h.id)]

RECURSIVE ApplyMutations(_, _)
ApplyMutations(l, mutations) ==
    IF mutations = <<>> THEN l
    ELSE ApplyMutations(ApplyMutation(l, Head(mutations)), Tail(mutations))

----------------------------------------------------------------------------
(* pkg/networking/service.go *)

\* mutant: the generated name takes the component from the merged labels
newService_NameFromLabels(name, instanceName, instanceNamespace, comp, labels, annotations) ==
    LET merged == MergeMaps(LabelsForCluster(instanceName, comp), labels)
        serviceName == IF name # "" THEN name
                       ELSE GenerateResourceName(instanceName,
                                                 merged["app.kubernetes.io/component"])
    IN [kind        |-> "Service",
        Name        |-> serviceName,
        Namespace   |-> instanceNamespace,
        Spec        |-> <<>>,
        Labels      |-> merged,
        Annotations |-> MergeMaps(AnnotationsForCluster(instanceName, instanceNamespace),
                                  annotations)]

\* mutant: the defaults are merged on top of the request's maps
newService_DefaultsWin(name, instanceName, instanceNamespace, comp, labels, annotations) ==
    LET serviceName == IF name # "" THEN name
                       ELSE GenerateResourceName(instanceName, comp)
    IN [kind        |-> "Service",
        Name        |-> serviceName,
        Namespace   |-> instanceNamespace,
        Spec        |-> <<>>,
        Labels      |-> MergeMaps(labels, LabelsForCluster(instanceName, comp)),
        Annotations |-> MergeMaps(annotations,
                                  AnnotationsForCluster(instanceName, instanceNamespace))]

newService(name, instanceName, instanceNamespace, comp, labels, annotations) ==
    LET serviceName == IF name # "" THEN name
                       ELSE GenerateResourceName(instanceName, comp)
    IN [kind        |-> "Service",
        Name        |-> serviceName,
        Namespace   |-> instanceNamespace,
        Spec        |-> <<>>,
        Labels      |-> MergeMaps(LabelsForCluster(instanceName, comp), labels),
        Annotations |-> MergeMaps(AnnotationsForCluster(instanceName, instanceNamespace),
                                  annotations)]

RequestService(request) ==
    LET service == newService(request.Name, request.InstanceName,
                              request.InstanceNamespace, request.Component,
                              request.Labels, request.Annotations)
        l == ApplyMutations(Loop(service), request.Mutations)
    IN [obj     |-> l.obj,
        err     |-> IF Len(request.Mutations) > 0 /\ l.mutationErr # NoHookErr
                    THEN Errorf("RequestService: one or more mutation functions could not be applied",
                                l.mutationErr)
                    ELSE NilError,
        invoked |-> l.invoked]

----------------------------------------------------------------------------
(* pkg/workloads/statefulset.go *)

newStatefulSet(name, instanceName, namespace, comp, labels) ==
    LET StatefulSetName == IF name # "" THEN name
                           ELSE GenerateResourceName(instanceName, comp)
    IN [kind      |-> "StatefulSet",
        Name      |-> StatefulSetName,
        Namespace |-> namespace,
        Spec      |-> <<>>,
        Labels    |-> MergeMaps(LabelsForCluster(instanceName, comp), labels)]

RequestStatefulSet(request) ==
    LET StatefulSet == newStatefulSet(request.Name, request.InstanceName,
                                      request.Namespace, request.Component,
                                      request.Labels)
        l == ApplyMutations(Loop(StatefulSet), request.Mutations)
    IN [obj     |-> l.obj,
        err     |-> IF Len(request.Mutations) > 0 /\ l.mutationErr # NoHookErr
                    THEN Errorf("RequestStatefulSet: one or more mutation functions could not be applied",
                                l.mutationErr)
                    ELSE NilError,
        invoked |-> l.invoked]

----------------------------------------------------------------------------
(* Objects the reconcilers work on *)

resourceLabels ==
    [k \in {"app.kubernetes.io/name", "app.kubernetes.io/component"} |->
        IF k = "app.kubernetes.io/name" THEN resourceName ELSE "applicationset-controller"]

InstanceAnnotations == EmptyMap

ServiceAccount == [kind |-> "ServiceAccount", Name |-> resourceName, Namespace |-> InstanceNamespace]

Namespace(terminating) ==
    [kind |-> "Namespace", Name |-> InstanceNamespace, Namespace |-> "",
     DeletionTimestamp |-> terminating]

Role == [kind |-> "Role", Name |-> resourceName, Namespace |-> InstanceNamespace]

\* controllerutil.SetControllerReference: records the instance as the
\* controlling owner of obj, or fails and leaves obj alone
SetControllerReference(c, obj, F) ==
    LET err == IF "SetControllerReference" \in F THEN OtherErr ELSE NilErr
    IN [store |-> c.store,
        calls |-> Logged(c, "SetControllerReference", KeyOf(obj), err),
        err   |-> err,
        obj   |-> IF err = NilErr THEN [obj EXCEPT !.OwnerReferences = InstanceRef] ELSE obj]

\* argocdcommon.UpdateIfChanged: for every entry whose existing field differs
\* from the desired one, copy desired over existing and set changed
FieldToCompare(field) == field

RECURSIVE UpdateIfChanged(_, _, _, _)
UpdateIfChanged(ftc, existing, desired, changed) ==
    IF ftc = <<>> THEN [existing |-> existing, desired |-> desired, changed |-> changed]
    ELSE LET f == Head(ftc)
         IN IF existing[f] # desired[f]
            THEN UpdateIfChanged(Tail(ftc), [existing EXCEPT ![f] = desired[f]], desired, TRUE)
            ELSE UpdateIfChanged(Tail(ftc), existing, desired, changed)

\* what a reconcile call leaves behind: the store, the calls it issued, the
\* terminal outcome of the return statement it took and the error it returned
\* built is the desired object as Build returned it, desiredOut the desired
\* object as the call leaves it
NoInfo ==
    [desired |-> Nil, existing |-> Nil, diffed |-> Nil, changed |-> FALSE,
     fields |-> <<>>, ownerErr |-> NilErr, built |-> Nil, desiredOut |-> Nil,
     buildErr |-> NilError]

Return(c, outcome, err, info) ==
    [store |-> c.store, calls |-> c.calls, outcome |-> outcome, err |-> err,
     desired |-> info.desired, existing |-> info.existing, diffed |-> info.diffed,
     changed |-> info.changed, fields |-> info.fields, ownerErr |-> info.ownerErr,
     built |-> info.built, desiredOut |-> info.desiredOut, buildErr |-> info.buildErr]

----------------------------------------------------------------------------
(* pkg/permissions, pkg/cluster, pkg/workloads helpers used by the          *)
(* reconcilers: the Get / Create / Update / Delete quintet of service.go,   *)
(* instantiated for the kind in their name.                                 *)

GetServiceAccount(c, name, namespace, F) ==
    GetService(c, Key("ServiceAccount", name, namespace), "GetServiceAccount", F)

GetNamespace(c, name, F) == GetService(c, Key("Namespace", name, ""), "GetNamespace", F)

GetRoleBinding(c, name, namespace, F) ==
    GetService(c, Key("RoleBinding", name, namespace), "Get", F)

CreateRoleBinding(c, rb, F) == CreateService(c, rb, F)

UpdateRoleBinding(c, rb, F) == UpdateService(c, rb, F)

DeleteRoleBinding(c, name, namespace, F) ==
    DeleteService(c, Key("RoleBinding", name, namespace), F)

DeleteRole(c, name, namespace, F) == DeleteService(c, Key("Role", name, namespace), F)

GetConfigMap(c, name, namespace, F) ==
    GetService(c, Key("ConfigMap", name, namespace), "Get", F)

CreateConfigMap(c, cm, F) == CreateService(c, cm, F)

UpdateConfigMap(c, cm, F) == UpdateService(c, cm, F)

DeleteConfigMap(c, name, namespace, F) ==
    DeleteService(c, Key("ConfigMap", name, namespace), F)

RequestRoleBinding(request) ==
    [kind            |-> "RoleBinding",
     Name            |-> request.ObjectMeta.Name,
     Namespace       |-> request.ObjectMeta.Namespace,
     Labels          |-> request.ObjectMeta.Labels,
     Annotations     |-> request.ObjectMeta.Annotations,
     RoleRef         |-> request.RoleRef,
     Subjects        |-> request.Subjects,
     OwnerReferences |-> NoOwner]

\* argoutil.GetObjMeta
GetObjMeta(name, namespace, instanceName, instanceNamespace, comp) ==
    [Name        |-> name,
     Namespace   |-> namespace,
     Labels      |-> LabelsForCluster(instanceName, comp),
     Annotations |-> AnnotationsForCluster(instanceName, instanceNamespace)]

\* workloads.RequestConfigMap: the object is returned with or without an
\* error; whether the call fails is an input ("RequestConfigMap" in F)
RequestConfigMap(request, F) ==
    [obj |-> [kind            |-> "ConfigMap",
              Name            |-> request.ObjectMeta.Name,
              Namespace       |-> request.ObjectMeta.Namespace,
              Labels          |-> request.ObjectMeta.Labels,
              Annotations     |-> request.ObjectMeta.Annotations,
              Data            |-> request.Data,
              OwnerReferences |-> NoOwner],
     err |-> IF "RequestConfigMap" \in F
             THEN Errorf("RequestConfigMap: one or more mutation functions could not be applied", 1)
             ELSE NilError]

----------------------------------------------------------------------------
(* controllers/argocd/applicationset/rolebinding.go *)

\* applicationset role.go: deleteRole, the Role twin of deleteRoleBinding
deleteRole(c, name, namespace, F) ==
    LET d == DeleteRole(c, name, namespace, F)
        err == IF d.err # NilErr /\ ~IsNotFound(d.err) THEN d.err ELSE NilErr
    IN [d EXCEPT !.err = err,
                 !.calls = Append(@, Call("deleteRole", Key("Role", name, namespace), err))]

\* mutant: a NotFound of the delete is returned like any other error
deleteRoleBinding_KeepsNotFound(c, name, namespace, F) ==
    LET d == DeleteRoleBinding(c, name, namespace, F)
    IN [d EXCEPT !.calls = Append(@, Call("deleteRoleBinding",
                                          Key("RoleBinding", name, namespace), d.err))]

\* mutant: the role of the same name is deleted along with the roleBinding
deleteRoleBinding_AlsoDeletesRole(c, name, namespace, F) ==
    LET d == DeleteRole(DeleteRoleBinding(c, name, namespace, F), name, namespace, F)
        err == IF d.err # NilErr /\ ~IsNotFound(d.err) THEN d.err ELSE NilErr
    IN [d EXCEPT !.err = err,
                 !.calls = Append(@, Call("deleteRoleBinding",
                                          Key("RoleBinding", name, namespace), err))]

deleteRoleBinding(c, name, namespace, F) ==
    LET d == DeleteRoleBinding(c, name, namespace, F)
        err == IF d.err # NilErr /\ ~IsNotFound(d.err) THEN d.err ELSE NilErr
    IN [d EXCEPT !.err = err,
                 !.calls = Append(@, Call("deleteRoleBinding",
                                          Key("RoleBinding", name, namespace), err))]

roleBindingRequest(sa) ==
    [ObjectMeta |-> [Name        |-> resourceName,
                     Namespace   |-> InstanceNamespace,
                     Labels      |-> resourceLabels,
                     Annotations |-> InstanceAnnotations],
     RoleRef    |-> [APIGroup |-> "rbac.authorization.k8s.io", Kind |-> "Role",
                     Name |-> resourceName],
     Subjects   |-> <<[Kind |-> "ServiceAccount", Name |-> sa.Name,
                       Namespace |-> sa.Namespace]>>]

\* mutant: a failure to set the owner reference is returned
createMissingRoleBinding_OwnerFatal(g, desiredRoleBinding, F) ==
    LET o    == SetControllerReference(g, desiredRoleBinding, F)
        cr   == CreateRoleBinding(o, o.obj, F)
        info == [NoInfo EXCEPT !.desired = o.obj, !.ownerErr = o.err,
                               !.built = desiredRoleBinding, !.desiredOut = o.obj]
    IN IF o.err # NilErr
       THEN Return(o, "Failed", o.err, info)
       ELSE IF cr.err # NilErr
       THEN Return(cr, "Failed", cr.err, info)
       ELSE Return(cr, "Created", NilErr, info)

\* mutant: the roleBinding is reported created although Create failed
createMissingRoleBinding_IgnoresCreateError(g, desiredRoleBinding, F) ==
    LET o    == SetControllerReference(g, desiredRoleBinding, F)
        cr   == CreateRoleBinding(o, o.obj, F)
        info == [NoInfo EXCEPT !.desired = o.obj, !.ownerErr = o.err,
                               !.built = desiredRoleBinding, !.desiredOut = o.obj]
    IN Return(cr, "Created", NilErr, info)

\* lines 71-80: the roleBinding was not found
createMissingRoleBinding(g, desiredRoleBinding, F) ==
    LET o    == SetControllerReference(g, desiredRoleBinding, F)
        cr   == CreateRoleBinding(o, o.obj, F)
        info == [NoInfo EXCEPT !.desired = o.obj, !.ownerErr = o.err,
                               !.built = desiredRoleBinding, !.desiredOut = o.obj]
    IN IF cr.err # NilErr
       THEN Return(cr, "Failed", cr.err, info)
       ELSE Return(cr, "Created", NilErr, info)

\* mutant: the entries of the table are copied from existing to desired
compareRoleBinding_CopiesBack(existingRoleBinding, desiredRoleBinding) ==
    LET fieldsToCompare == <<FieldToCompare("Subjects")>>
        u == UpdateIfChanged(fieldsToCompare, desiredRoleBinding, existingRoleBinding, FALSE)
    IN [existing |-> existingRoleBinding, desired |-> u.existing, changed |-> u.changed,
        fields |-> fieldsToCompare]

\* lines 92-98: the comparator table of the roleBinding and its evaluation
compareRoleBinding(existingRoleBinding, desiredRoleBinding) ==
    LET fieldsToCompare == <<FieldToCompare("Subjects")>>
    IN UpdateIfChanged(fieldsToCompare, existingRoleBinding, desiredRoleBinding, FALSE)
       @@ [fields |-> fieldsToCompare]

\* lines 64-110: the parent is not terminating
reconcileRoleBindingLive(n, desiredRoleBinding, F) ==
    LET g == GetRoleBinding(n, desiredRoleBinding.Name, desiredRoleBinding.Namespace, F)
        info == [NoInfo EXCEPT !.desired = desiredRoleBinding,
                               !.built = desiredRoleBinding,
                               !.desiredOut = desiredRoleBinding]
    IN IF g.err # NilErr
       THEN IF ~IsNotFound(g.err)
            THEN Return(g, "Failed", g.err, info)
            ELSE createMissingRoleBinding(g, desiredRoleBinding, F)
       ELSE LET existingRoleBinding == g.obj
                i3 == [info EXCEPT !.existing = existingRoleBinding]
            IN IF existingRoleBinding.RoleRef # desiredRoleBinding.RoleRef
               THEN LET d == deleteRoleBinding(g, resourceName, InstanceNamespace, F)
                    IN IF d.err # NilErr
                       THEN Return(d, "Failed", d.err, i3)
                       ELSE Return(d, "Deleted", NilErr, i3)
               ELSE LET u  == compareRoleBinding(existingRoleBinding, desiredRoleBinding)
                        i4 == [i3 EXCEPT !.diffed = u.existing, !.changed = u.changed,
                                         !.fields = u.fields, !.desiredOut = u.desired]
                    IN IF ~u.changed
                       THEN Return(g, "NoOp", NilErr, i4)
                       ELSE LET up == UpdateRoleBinding(g, u.existing, F)
                            IN IF up.err # NilErr
                               THEN Return(up, "Failed", up.err, i4)
                               ELSE Return(up, "Updated", NilErr, i4)

\* mutant: after the delete the reconcile goes on as for a live parent
reconcileRoleBinding_FallsThrough(st, F) ==
    LET s == GetServiceAccount(Ctx(st), resourceName, InstanceNamespace, F)
    IN IF s.err # NilErr
       THEN Return(s, "Failed", s.err, NoInfo)
       ELSE LET desiredRoleBinding == RequestRoleBinding(roleBindingRequest(s.obj))
                n == GetNamespace(s, InstanceNamespace, F)
                info == [NoInfo EXCEPT !.desired = desiredRoleBinding,
                                       !.built = desiredRoleBinding,
                                       !.desiredOut = desiredRoleBinding]
            IN IF n.err # NilErr
               THEN Return(n, "Failed", n.err, info)
               ELSE IF n.obj.DeletionTimestamp
               THEN LET d == deleteRole(n, desiredRoleBinding.Name,
                                        desiredRoleBinding.Namespace, F)
                    IN reconcileRoleBindingLive(d, desiredRoleBinding, F)
               ELSE reconcileRoleBindingLive(n, desiredRoleBinding, F)

reconcileRoleBinding(st, F) ==
    LET s == GetServiceAccount(Ctx(st), resourceName, InstanceNamespace, F)
    IN IF s.err # NilErr
       THEN Return(s, "Failed", s.err, NoInfo)
       ELSE LET desiredRoleBinding == RequestRoleBinding(roleBindingRequest(s.obj))
                n == GetNamespace(s, InstanceNamespace, F)
                info == [NoInfo EXCEPT !.desired = desiredRoleBinding,
                                       !.built = desiredRoleBinding,
                                       !.desiredOut = desiredRoleBinding]
            IN IF n.err # NilErr
               THEN Return(n, "Failed", n.err, info)
               ELSE IF n.obj.DeletionTimestamp
               THEN \* the error of deleteRole is local to the if statement:
                    \* `return err` returns the (nil) error of GetNamespace
                    LET d == deleteRole(n, desiredRoleBinding.Name,
                                        desiredRoleBinding.Namespace, F)
                    IN Return(d, IF n.err = NilErr THEN "Deleted" ELSE "Failed", n.err, info)
               ELSE reconcileRoleBindingLive(n, desiredRoleBinding, F)

----------------------------------------------------------------------------
(* controllers/argocd/redis configmap.go *)

haproxyCfgKey == "haproxy.cfg"
haproxyScriptKey == "haproxy_init.sh"
initScriptKey == "init.sh"
redisConfKey == "redis.conf"
sentinelConfKey == "sentinel.Conf"

\* the rendered templates (getHAProxyConfig, getHAProxyScript, ...)
HAData ==
    [k \in {haproxyCfgKey, haproxyScriptKey, initScriptKey, redisConfKey, sentinelConfKey} |->
        "rendered"]

cmRequest ==
    [ObjectMeta |-> GetObjMeta(ArgoCDRedisHAConfigMapName, InstanceNamespace, InstanceName,
                               InstanceNamespace, component),
     Data       |-> HAData]

\* mutant: changed starts out true
compareConfigMap_AlwaysChanged(existing, desired) ==
    LET fieldsToCompare == <<FieldToCompare("Labels"), FieldToCompare("Annotations"),
                             FieldToCompare("Data")>>
    IN UpdateIfChanged(fieldsToCompare, existing, desired, TRUE)
       @@ [fields |-> fieldsToCompare]

\* mutant: the table has Existing and Desired the wrong way round
compareConfigMap_Swapped(existing, desired) ==
    LET fieldsToCompare == <<FieldToCompare("Labels"), FieldToCompare("Annotations"),
                             FieldToCompare("Data")>>
    IN UpdateIfChanged(fieldsToCompare, desired, existing, FALSE)
       @@ [fields |-> fieldsToCompare]

\* mutant: the owner references are an entry of the table
compareConfigMap_WithOwner(existing, desired) ==
    LET fieldsToCompare == <<FieldToCompare("Labels"), FieldToCompare("Annotations"),
                             FieldToCompare("Data"), FieldToCompare("OwnerReferences")>>
    IN UpdateIfChanged(fieldsToCompare, existing, desired, FALSE)
       @@ [fields |-> fieldsToCompare]

\* lines 127-135: the comparator table of the config map and its evaluation
compareConfigMap(existing, desired) ==
    LET fieldsToCompare == <<FieldToCompare("Labels"), FieldToCompare("Annotations"),
                             FieldToCompare("Data")>>
    IN UpdateIfChanged(fieldsToCompare, existing, desired, FALSE)
       @@ [fields |-> fieldsToCompare]

\* mutant: the error of the Build is logged and the reconcile goes on
reconcileHAConfigMap_IgnoresBuildError(st, F) ==
    LET b == RequestConfigMap(cmRequest, F)
        i0 == [NoInfo EXCEPT !.desired = b.obj, !.built = b.obj, !.desiredOut = b.obj,
                             !.buildErr = b.err]
    IN LET o == SetControllerReference(Ctx(st), b.obj, F)
           desired == o.obj
           g == GetConfigMap(o, desired.Name, desired.Namespace, F)
           info == [i0 EXCEPT !.desired = desired, !.ownerErr = o.err,
                              !.desiredOut = desired]
       IN IF g.err # NilErr
          THEN IF ~IsNotFound(g.err)
               THEN Return(g, "Failed", g.err, info)
               ELSE LET cr == CreateConfigMap(g, desired, F)
                    IN IF cr.err # NilErr
                       THEN Return(cr, "Failed", cr.err, info)
                       ELSE Return(cr, "Created", NilErr, info)
          ELSE LET existing == g.obj
                   u  == compareConfigMap(existing, desired)
                   i2 == [info EXCEPT !.existing = existing, !.diffed = u.existing,
                                      !.changed = u.changed, !.fields = u.fields,
                                      !.desiredOut = u.desired]
               IN IF ~u.changed
                  THEN Return(g, "NoOp", NilErr, i2)
                  ELSE LET up == UpdateConfigMap(g, u.existing, F)
                       IN IF up.err # NilErr
                          THEN Return(up, "Failed", up.err, i2)
                          ELSE Return(up, "Updated", NilErr, i2)

reconcileHAConfigMap(st, F) ==
    LET b == RequestConfigMap(cmRequest, F)
        i0 == [NoInfo EXCEPT !.desired = b.obj, !.built = b.obj, !.desiredOut = b.obj,
                             !.buildErr = b.err]
    IN IF b.err # NilError
       THEN Return(Ctx(st), "Failed", MutationFailed, i0)
       ELSE
       LET o == SetControllerReference(Ctx(st), b.obj, F)
           desired == o.obj
           g == GetConfigMap(o, desired.Name, desired.Namespace, F)
           info == [i0 EXCEPT !.desired = desired, !.ownerErr = o.err,
                              !.desiredOut = desired]
       IN IF g.err # NilErr
          THEN IF ~IsNotFound(g.err)
               THEN Return(g, "Failed", g.err, info)
               ELSE LET cr == CreateConfigMap(g, desired, F)
                    IN IF cr.err # NilErr
                       THEN Return(cr, "Failed", cr.err, info)
                       ELSE Return(cr, "Created", NilErr, info)
          ELSE LET existing == g.obj
                   u  == compareConfigMap(existing, desired)
                   i2 == [info EXCEPT !.existing = existing, !.diffed = u.existing,
                                      !.changed = u.changed, !.fields = u.fields,
                                      !.desiredOut = u.desired]
               IN IF ~u.changed
                  THEN Return(g, "NoOp", NilErr, i2)
                  ELSE LET up == UpdateConfigMap(g, u.existing, F)
                       IN IF up.err # NilErr
                          THEN Return(up, "Failed", up.err, i2)
                          ELSE Return(up, "Updated", NilErr, i2)

\* mutant: a NotFound of the delete is returned
deleteConfigMap_KeepsNotFound(c, name, namespace, F) ==
    LET d == DeleteConfigMap(c, name, namespace, F)
    IN [d EXCEPT !.calls = Append(@, Call("deleteConfigMap",
                                          Key("ConfigMap", name, namespace), d.err))]

\* lines 205-214
deleteConfigMap(c, name, namespace, F) ==
    LET d == DeleteConfigMap(c, name, namespace, F)
        err == IF d.err # NilErr /\ ~IsNotFound(d.err) THEN d.err ELSE NilErr
    IN [d EXCEPT !.err = err,
                 !.calls = Append(@, Call("deleteConfigMap",
                                          Key("ConfigMap", name, namespace), err))]

----------------------------------------------------------------------------
(* External actors: what else can happen to the stored objects *)

\* the label an external actor flips, per kind
FlipKey(key) ==
    IF key.kind = "RoleBinding" THEN "app.kubernetes.io/component"
    ELSE "app.kubernetes.io/part-of"

DesiredRoleBinding == RequestRoleBinding(roleBindingRequest(ServiceAccount))
DesiredConfigMap == RequestConfigMap(cmRequest, {}).obj

DesiredLabels(key) ==
    IF key.kind = "RoleBinding" THEN DesiredRoleBinding.Labels ELSE DesiredConfigMap.Labels

\* an external actor changes the value of one label, or changes it back
Flipped(labels, key) ==
    LET k == FlipKey(key)
    IN [labels EXCEPT ![k] = IF @ = "edited" THEN DesiredLabels(key)[k] ELSE "edited"]

ForeignRoleRef ==
    [APIGroup |-> "rbac.authorization.k8s.io", Kind |-> "ClusterRole", Name |-> "admin"]

\* the objects an external actor may put under a child key
Variants(key) ==
    CASE key.kind = "RoleBinding" ->
            {[DesiredRoleBinding EXCEPT !.RoleRef = rr, !.Subjects = su, !.Labels = la,
                                        !.OwnerReferences = ow] :
                rr \in {DesiredRoleBinding.RoleRef, ForeignRoleRef},
                su \in {DesiredRoleBinding.Subjects, <<>>},
                la \in {DesiredRoleBinding.Labels,
                        [DesiredRoleBinding.Labels EXCEPT ![FlipKey(key)] = "edited"]},
                ow \in {NoOwner, InstanceRef, ForeignOwner}}
      [] key.kind = "ConfigMap" ->
            {[DesiredConfigMap EXCEPT !.Labels = la, !.Annotations = an, !.Data = da,
                                      !.OwnerReferences = ow] :
                la \in {DesiredConfigMap.Labels,
                        [DesiredConfigMap.Labels EXCEPT ![FlipKey(key)] = "edited"]},
                an \in {DesiredConfigMap.Annotations,
                        [DesiredConfigMap.Annotations EXCEPT !["argocds.argoproj.io/name"] = "edited"]},
                da \in {DesiredConfigMap.Data,
                        [DesiredConfigMap.Data EXCEPT ![redisConfKey] = "edited"]},
                ow \in {NoOwner, InstanceRef, ForeignOwner}}
      [] OTHER -> {Role}

\* the fields the store lets nobody change on an existing object
SameImmutable(a, b) == a.kind = "RoleBinding" => a.RoleRef = b.RoleRef

----------------------------------------------------------------------------
(* controllers/argocd: the server route and the auto-TLS annotation, as    *)
(* the tests of route_test.go and service_test.go exercise them             *)

testArgoCDName == "argocd"
testNamespace == "argocd"

\* makeArgoCD with a.Spec.Server.Route.Enabled = true
makeArgoCD ==
    [Name |-> testArgoCDName, Namespace |-> testNamespace,
     RouteEnabled |-> TRUE, Insecure |-> FALSE]

TLSTerminationPassthrough == "passthrough"
TLSTerminationEdge == "edge"
InsecureEdgeTerminationPolicyRedirect == "Redirect"

\* the TLS configuration and target port the tests expect for the flag
wantTLSConfig(insecure) ==
    [Termination |-> IF insecure THEN TLSTerminationEdge ELSE TLSTerminationPassthrough,
     InsecureEdgeTerminationPolicy |-> InsecureEdgeTerminationPolicyRedirect]

wantPort(insecure) == [TargetPort |-> IF insecure THEN "http" ELSE "https"]

newRoute(cr) ==
    [kind |-> "Route", Name |-> cr.Name \o "-server", Namespace |-> cr.Namespace,
     TLS |-> Nil, Port |-> Nil]

\* mutant: an existing route is left as it is
reconcileServerRoute_CreateOnly(c) ==
    IF ~c.argoCD.RouteEnabled THEN c
    ELSE IF c.route = Nil
    THEN [c EXCEPT !.route = [newRoute(c.argoCD) EXCEPT
                                 !.TLS = wantTLSConfig(c.argoCD.Insecure),
                                 !.Port = wantPort(c.argoCD.Insecure)]]
    ELSE c

\* the route part of r.Reconcile: creates the server route when it is missing
\* and brings the TLS configuration and the port of an existing one to the
\* values for Server.Insecure
reconcileServerRoute(c) ==
    IF ~c.argoCD.RouteEnabled THEN c
    ELSE LET route == IF c.route = Nil THEN newRoute(c.argoCD) ELSE c.route
         IN [c EXCEPT !.route = [route EXCEPT
                                    !.TLS = wantTLSConfig(c.argoCD.Insecure),
                                    !.Port = wantPort(c.argoCD.Insecure)]]

AnnotationOpenShiftServiceCA == "service.beta.openshift.io/serving-cert-secret-name"

SecretNames == {"some-secret", "other-secret"}

\* newService(a) of package argocd: a service without the auto-TLS annotation
argocdNewService(cr) ==
    [kind |-> "Service", Name |-> cr.Name, Namespace |-> cr.Namespace,
     Annotations |-> EmptyMap]

SetAnnotation(annotations, k, v) ==
    [x \in DOMAIN annotations \cup {k} |-> IF x = k THEN v ELSE annotations[x]]

DeleteAnnotation(annotations, k) == [x \in DOMAIN annotations \ {k} |-> annotations[x]]

\* mutant: enabled always reports an update
ensureAutoTLSAnnotation_AlwaysUpdates(c, service, secretName, enabled, apiFound) ==
    IF enabled
    THEN IF ~apiFound \/ secretName \in c.secrets
         THEN [svc |-> service, needUpdate |-> FALSE]
         ELSE [svc |-> [service EXCEPT !.Annotations =
                           SetAnnotation(@, AnnotationOpenShiftServiceCA, secretName)],
               needUpdate |-> TRUE]
    ELSE IF AnnotationOpenShiftServiceCA \in DOMAIN service.Annotations
         THEN [svc |-> [service EXCEPT !.Annotations =
                           DeleteAnnotation(@, AnnotationOpenShiftServiceCA)],
               needUpdate |-> TRUE]
         ELSE [svc |-> service, needUpdate |-> FALSE]

\* mutant: the annotation is requested although the secret exists
ensureAutoTLSAnnotation_IgnoresSecret(c, service, secretName, enabled, apiFound) ==
    LET ok  == AnnotationOpenShiftServiceCA \in DOMAIN service.Annotations
        val == IF ok THEN service.Annotations[AnnotationOpenShiftServiceCA] ELSE ""
    IN IF enabled
       THEN IF ~apiFound
            THEN [svc |-> service, needUpdate |-> FALSE]
            ELSE IF ~ok \/ val # secretName
            THEN [svc |-> [service EXCEPT !.Annotations =
                              SetAnnotation(@, AnnotationOpenShiftServiceCA, secretName)],
                  needUpdate |-> TRUE]
            ELSE [svc |-> service, needUpdate |-> FALSE]
       ELSE IF ok
            THEN [svc |-> [service EXCEPT !.Annotations =
                              DeleteAnnotation(@, AnnotationOpenShiftServiceCA)],
                  needUpdate |-> TRUE]
            ELSE [svc |-> service, needUpdate |-> FALSE]

\* ensureAutoTLSAnnotation(client, svc, secretName, enabled): the service as the
\* call leaves it and the value it returns
ensureAutoTLSAnnotation(c, service, secretName, enabled, apiFound) ==
    LET ok  == AnnotationOpenShiftServiceCA \in DOMAIN service.Annotations
        val == IF ok THEN service.Annotations[AnnotationOpenShiftServiceCA] ELSE ""
    IN IF enabled
       THEN IF ~apiFound \/ secretName \in c.secrets
            THEN [svc |-> service, needUpdate |-> FALSE]
            ELSE IF ~ok \/ val # secretName
            THEN [svc |-> [service EXCEPT !.Annotations =
                              SetAnnotation(@, AnnotationOpenShiftServiceCA, secretName)],
                  needUpdate |-> TRUE]
            ELSE [svc |-> service, needUpdate |-> FALSE]
       ELSE IF ok
            THEN [svc |-> [service EXCEPT !.Annotations =
                              DeleteAnnotation(@, AnnotationOpenShiftServiceCA)],
                  needUpdate |-> TRUE]
            ELSE [svc |-> service, needUpdate |-> FALSE]

----------------------------------------------------------------------------
(* package argocd: the version API flag and the cluster config namespaces   *)

\* argoutil.VerifyAPI(group, version): what the discovery of the API answers
APIResponses == [found : BOOLEAN, err : {NilErr, OtherErr}]

VerifyAPI(api) == [found |-> api.found, err |-> api.err]

IsVersionAPIAvailable(found) == found

\* mutant: the flag is assigned before the error is looked at
VerifyVersionAPI_AssignsFirst(flag, api) ==
    LET r == VerifyAPI(api)
    IN [versionAPIFound |-> r.found, err |-> r.err]

\* the flag as the call leaves it and the error it returns
VerifyVersionAPI(flag, api) ==
    LET r == VerifyAPI(api)
    IN IF r.err # NilErr
       THEN [versionAPIFound |-> flag, err |-> r.err]
       ELSE [versionAPIFound |-> r.found, err |-> NilErr]

\* the error of VerifyVersionAPI is dropped; the function returns nothing
InspectCluster(flag, api) ==
    LET r == VerifyVersionAPI(flag, api)
    IN [versionAPIFound |-> r.versionAPIFound, err |-> NilErr]

\* a value of the variable is a sequence of tokens: names, "*" and the comma
EnvTokens == {"*", "ns1", "ns2", ","}

EnvValues == UNION {[1..n -> EnvTokens] : n \in 0..MaxEnvLen}

Currents == {"", "ns1", "ns2", "*"}

\* what SplitList may return for the empty value: no entry or one empty entry
EmptyLists == {<<>>, <<"">>}

GetClusterConfigNamespaces(e) == e

RECURSIVE Split(_, _, _)
Split(s, piece, acc) ==
    IF s = <<>> THEN Append(acc, piece)
    ELSE IF Head(s) = "," THEN Split(Tail(s), "", Append(acc, piece))
    ELSE Split(Tail(s), piece \o Head(s), acc)

\* argoutil.SplitList: the entries between the commas
SplitList(s, emptyList) == IF s = <<>> THEN emptyList ELSE Split(s, "", <<>>)

\* mutant: a "*" anywhere in the list is a wildcard
IsClusterConfigNs_WildcardAnywhere(e, current, emptyList) ==
    LET clusterConfigNamespaces == SplitList(GetClusterConfigNamespaces(e), emptyList)
    IN IF Len(clusterConfigNamespaces) > 0
       THEN \E i \in 1..Len(clusterConfigNamespaces) :
               clusterConfigNamespaces[i] \in {"*", current}
       ELSE FALSE

IsClusterConfigNs(e, current, emptyList) ==
    LET clusterConfigNamespaces == SplitList(GetClusterConfigNamespaces(e), emptyList)
    IN IF Len(clusterConfigNamespaces) > 0
       THEN IF clusterConfigNamespaces[1] = "*" THEN TRUE
            ELSE \E i \in 1..Len(clusterConfigNamespaces) :
                    clusterConfigNamespaces[i] = current
       ELSE FALSE

----------------------------------------------------------------------------
(* State *)

NoCall ==
    [fn |-> "none", key |-> nsKey, pre |-> <<>>, calls |-> <<>>,
     outcome |-> "", err |-> NilErr, desired |-> Nil, existing |-> Nil, diffed |-> Nil,
     changed |-> FALSE, fields |-> <<>>, ownerErr |-> NilErr, built |-> Nil,
     desiredOut |-> Nil, buildErr |-> NilError]

Terminating(st) == st[nsKey].DeletionTimestamp

Writes == {"client.Create", "client.Update", "client.Delete"}

Wrote(calls) == \E i \in 1..Len(calls) : calls[i].op \in Writes

Recorded(fn, key, pre, r) ==
    [fn |-> fn, key |-> key, pre |-> pre, calls |-> r.calls,
     outcome |-> r.outcome, err |-> r.err, desired |-> r.desired,
     existing |-> r.existing, diffed |-> r.diffed, changed |-> r.changed,
     fields |-> r.fields, ownerErr |-> r.ownerErr, built |-> r.built,
     desiredOut |-> r.desiredOut, buildErr |-> r.buildErr]

\* the object under key exists with a roleRef other than the desired one
ImmutableDriftIn(st, key) ==
    /\ key.kind = "RoleBinding"
    /\ st[key] # Nil
    /\ st[key].RoleRef # DesiredRoleBinding.RoleRef

\* an event of the window: a reconcile call or a step of an external actor
Event(fn, key, outcome, err, pre, post, wrote, labels) ==
    [fn |-> fn, key |-> key, outcome |-> outcome, err |-> err,
     preAbsent |-> pre[key] = Nil, preTerm |-> Terminating(pre),
     wrote |-> wrote, postAbsent |-> post[key] = Nil,
     preDrift |-> ImmutableDriftIn(pre, key), postDrift |-> ImmutableDriftIn(post, key),
     labelsOk |-> /\ post[key] # Nil
                  /\ "Labels" \in DOMAIN post[key]
                  /\ post[key].Labels = labels]

CallEvent(fn, key, pre, r) ==
    Event(fn, key, r.outcome, r.err, pre, r.store, Wrote(r.calls),
          IF r.desired = Nil THEN EmptyMap ELSE r.desired.Labels)

ExternalEvent(fn, key, pre, post) ==
    Event(fn, key, "", NilErr, pre, post, FALSE, EmptyMap)

\* the window keeps the w most recent events
Push(h, e, w) == IF Len(h) < w THEN Append(h, e) ELSE Append(Tail(h), e)

NoBuild ==
    [fn |-> "none", request |-> Nil, obj |-> Nil, err |-> NilError, invoked |-> <<>>]

NoSelection == [built |-> FALSE, Name |-> "", InstanceName |-> "", Component |-> "", objName |-> ""]

Init ==
    /\ store = [k \in StoreKeys |->
                  CASE k = saKey -> ServiceAccount
                    [] k = nsKey -> Namespace(FALSE)
                    [] OTHER -> Nil]
    /\ last = NoCall
    /\ hist = <<>>
    /\ built = NoBuild
    /\ prevBuilt = NoSelection
    /\ routeAPIFound = FALSE
    /\ cl = [argoCD |-> makeArgoCD, route |-> Nil, secrets |-> {}]
    /\ svc = argocdNewService(makeArgoCD)
    /\ versionAPIFound = FALSE
    /\ environ = <<>>

----------------------------------------------------------------------------
(* Actions of Spec: reconcile calls whose store client may fail, next to    *)
(* external actors; last describes the call that has just returned.         *)

Reconcile(fn, key, r) ==
    /\ store' = r.store
    /\ last' = Recorded(fn, key, store, r)
    /\ UNCHANGED <<hist, built, prevBuilt, argocdVars, clusterVars>>

ReconcileRoleBinding ==
    \E F \in FaultSets(RoleBindingFaultPoints) :
        Reconcile("reconcileRoleBinding", rbKey, reconcileRoleBinding(store, F))

ReconcileHAConfigMap ==
    \E F \in FaultSets(ConfigMapFaultPoints) :
        Reconcile("reconcileHAConfigMap", cmKey, reconcileHAConfigMap(store, F))

External(post) ==
    /\ store' = post
    /\ last' = NoCall
    /\ UNCHANGED <<hist, built, prevBuilt, argocdVars, clusterVars>>

ExternalCreate ==
    \E key \in ChildKeys :
        /\ store[key] = Nil
        /\ \E obj \in Variants(key) : External([store EXCEPT ![key] = obj])

ExternalEdit ==
    \E key \in ChildKeys \ {roleKey} :
        /\ store[key] # Nil
        /\ \E obj \in Variants(key) :
              /\ obj # store[key]
              /\ SameImmutable(obj, store[key])
              /\ External([store EXCEPT ![key] = obj])

ExternalDelete ==
    \E key \in ChildKeys :
        /\ store[key] # Nil
        /\ External([store EXCEPT ![key] = Nil])

MarkNamespaceTerminating ==
    /\ ~Terminating(store)
    /\ External([store EXCEPT ![nsKey] = Namespace(TRUE)])

Next ==
    \/ ReconcileRoleBinding
    \/ ReconcileHAConfigMap
    \/ ExternalCreate
    \/ ExternalEdit
    \/ ExternalDelete
    \/ MarkNamespaceTerminating

Spec == Init /\ [][Next]_vars

----------------------------------------------------------------------------
(* Actions of SpecSeq: runs of reconcile calls whose store client does not  *)
(* fail.  hist holds the (at most MaxHist most recent) calls made since the *)
(* last step of an external actor: no external change lies between them.    *)

ReconcileSeq(fn, key, r, w) ==
    /\ store' = r.store
    /\ hist' = Push(hist, CallEvent(fn, key, store, r), w)
    /\ UNCHANGED <<last, built, prevBuilt, argocdVars, clusterVars>>

SeqExternal(post) ==
    /\ store' = post
    /\ hist' = <<>>
    /\ UNCHANGED <<last, built, prevBuilt, argocdVars, clusterVars>>

SeqReconcileRoleBinding ==
    ReconcileSeq("reconcileRoleBinding", rbKey, reconcileRoleBinding(store, {}), MaxHist)

SeqReconcileHAConfigMap ==
    ReconcileSeq("reconcileHAConfigMap", cmKey, reconcileHAConfigMap(store, {}), MaxHist)

SeqExternalCreate ==
    \E key \in ChildKeys :
        /\ store[key] = Nil
        /\ \E obj \in Variants(key) : SeqExternal([store EXCEPT ![key] = obj])

SeqExternalEdit ==
    \E key \in ChildKeys \ {roleKey} :
        /\ store[key] # Nil
        /\ \E obj \in Variants(key) :
              /\ obj # store[key]
              /\ SameImmutable(obj, store[key])
              /\ SeqExternal([store EXCEPT ![key] = obj])

SeqExternalDelete ==
    \E key \in ChildKeys :
        /\ store[key] # Nil
        /\ SeqExternal([store EXCEPT ![key] = Nil])

SeqMarkNamespaceTerminating ==
    /\ ~Terminating(store)
    /\ SeqExternal([store EXCEPT ![nsKey] = Namespace(TRUE)])

NextSeq ==
    \/ SeqReconcileRoleBinding
    \/ SeqReconcileHAConfigMap
    \/ SeqExternalCreate
    \/ SeqExternalEdit
    \/ SeqExternalDelete
    \/ SeqMarkNamespaceTerminating

SpecSeq == Init /\ [][NextSeq]_vars

----------------------------------------------------------------------------
(* Actions of SpecE2E: the end-to-end scenario.  hist is the window over    *)
(* the MaxScenario most recent events, the reconcile calls (whose store     *)
(* client does not fail) and the two external steps of the scenario.        *)

ExternalE2E(fn, key, post) ==
    /\ store' = post
    /\ hist' = Push(hist, ExternalEvent(fn, key, store, post), MaxScenario)
    /\ UNCHANGED <<last, built, prevBuilt, argocdVars, clusterVars>>

E2EReconcileRoleBinding ==
    ReconcileSeq("reconcileRoleBinding", rbKey, reconcileRoleBinding(store, {}), MaxScenario)

E2EReconcileHAConfigMap ==
    ReconcileSeq("reconcileHAConfigMap", cmKey, reconcileHAConfigMap(store, {}), MaxScenario)

E2EFlipLabel ==
    \E key \in ChildKeys \ {roleKey} :
        /\ store[key] # Nil
        /\ ExternalE2E("ExternalFlipLabel", key,
                       [store EXCEPT ![key].Labels = Flipped(@, key)])

E2EMarkNamespaceTerminating ==
    /\ ~Terminating(store)
    /\ ExternalE2E("MarkNamespaceTerminating", nsKey,
                   [store EXCEPT ![nsKey] = Namespace(TRUE)])

NextE2E ==
    \/ E2EReconcileRoleBinding
    \/ E2EReconcileHAConfigMap
    \/ E2EFlipLabel
    \/ E2EMarkNamespaceTerminating

SpecE2E == Init /\ [][NextE2E]_vars

----------------------------------------------------------------------------
(* Actions of SpecBuild: Build calls on requests drawn from bounded sets *)

Mutations(n, failing) == [i \in 1..n |-> Hook(i, i \in failing)]

HookLists == {Mutations(n, failing) : <<n, failing>> \in
                 {p \in (0..MaxHooks) \X SUBSET (1..MaxHooks) : p[2] \subseteq 1..p[1]}}

RequestLabels ==
    {EmptyMap,
     [k \in {"app.kubernetes.io/component", "team"} |->
        IF k = "team" THEN "platform" ELSE "server"]}

RequestAnnotations ==
    {EmptyMap, [k \in {"argocds.argoproj.io/name"} |-> "override"]}

ServiceRequests ==
    [Name : {"", "custom-name"}, InstanceName : {"cd1", "cd2"},
     InstanceNamespace : {"argocd"}, Component : {"redis", "server"},
     Labels : RequestLabels, Annotations : RequestAnnotations, Mutations : HookLists]

StatefulSetRequests ==
    [Name : {"", "custom-name"}, InstanceName : {"cd1", "cd2"},
     Namespace : {"argocd"}, Component : {"redis", "server"},
     Labels : RequestLabels, Mutations : HookLists]

NameSelection(b) ==
    IF b.fn = "none" THEN NoSelection
    ELSE [built |-> TRUE, Name |-> b.request.Name, InstanceName |-> b.request.InstanceName,
          Component |-> b.request.Component, objName |-> b.obj.Name]

Build(fn, request, r) ==
    /\ built' = [fn |-> fn, request |-> request, obj |-> r.obj, err |-> r.err,
                 invoked |-> r.invoked]
    /\ prevBuilt' = NameSelection(built)
    /\ UNCHANGED <<store, last, hist, argocdVars, clusterVars>>

BuildService ==
    \E request \in ServiceRequests : Build("RequestService", request, RequestService(request))

BuildStatefulSet ==
    \E request \in StatefulSetRequests :
        Build("RequestStatefulSet", request, RequestStatefulSet(request))

NextBuild ==
    \/ BuildService
    \/ BuildStatefulSet

SpecBuild == Init /\ [][NextBuild]_vars

----------------------------------------------------------------------------
(* Actions of SpecRoute: the steps of TestReconcileRouteSetsInsecure and    *)
(* TestReconcileRouteUnsetsInsecure in any order.  hist is the window over  *)
(* the MaxRouteHist most recent steps.                                      *)

RouteEvent(fn, c) == [fn |-> fn, Insecure |-> c.argoCD.Insecure, route |-> c.route]

RouteStep(fn, c, l) ==
    /\ cl' = c
    /\ hist' = Push(hist, RouteEvent(fn, c), MaxRouteHist)
    /\ last' = l
    /\ UNCHANGED <<store, built, prevBuilt, svc, clusterVars>>

\* routeAPIFound = true
RouteAPIFound ==
    /\ ~routeAPIFound
    /\ routeAPIFound' = TRUE
    /\ UNCHANGED <<store, last, hist, built, prevBuilt, cl, svc, clusterVars>>

\* argoCD.Spec.Server.Insecure = ...; r.Client.Update(ctx, argoCD)
RouteSetInsecure ==
    /\ routeAPIFound
    /\ UNCHANGED routeAPIFound
    /\ RouteStep("SetInsecure", [cl EXCEPT !.argoCD.Insecure = ~@], NoCall)

\* r.Reconcile(context.TODO(), req)
RouteReconcile ==
    /\ routeAPIFound
    /\ UNCHANGED routeAPIFound
    /\ RouteStep("Reconcile", reconcileServerRoute(cl),
                 [NoCall EXCEPT !.fn = "Reconcile", !.existing = cl.route])

NextRoute ==
    \/ RouteAPIFound
    \/ RouteSetInsecure
    \/ RouteReconcile

SpecRoute == Init /\ [][NextRoute]_vars

----------------------------------------------------------------------------
(* Actions of SpecTLS: the steps of TestEnsureAutoTLSAnnotation in any      *)
(* order, on either secret name.                                            *)

NoTLSCall ==
    [fn |-> "none", secretName |-> "", enabled |-> FALSE, needUpdate |-> FALSE,
     apiFound |-> FALSE, secretFound |-> FALSE, pre |-> Nil, repeated |-> FALSE]

TLSStep(found, c, service, l) ==
    /\ routeAPIFound' = found
    /\ cl' = c
    /\ svc' = service
    /\ last' = l
    /\ UNCHANGED <<store, hist, built, prevBuilt, clusterVars>>

\* routeAPIFound = true / routeAPIFound = false
TLSSetRouteAPIFound == TLSStep(~routeAPIFound, cl, svc, NoTLSCall)

\* svc := newService(a)
TLSNewService ==
    /\ svc # argocdNewService(cl.argoCD)
    /\ TLSStep(routeAPIFound, cl, argocdNewService(cl.argoCD), NoTLSCall)

\* svc.Annotations[common.AnnotationOpenShiftServiceCA] = "some-secret"
TLSSetAnnotation ==
    \E name \in SecretNames :
        TLSStep(routeAPIFound, cl,
                [svc EXCEPT !.Annotations =
                    SetAnnotation(@, AnnotationOpenShiftServiceCA, name)],
                NoTLSCall)

\* fakeClient.Create(context.Background(), secret)
TLSCreateSecret ==
    \E name \in SecretNames :
        /\ name \notin cl.secrets
        /\ TLSStep(routeAPIFound, [cl EXCEPT !.secrets = @ \cup {name}], svc, NoTLSCall)

\* needUpdate := ensureAutoTLSAnnotation(fakeClient, svc, secretName, enabled)
TLSEnsure ==
    \E secretName \in SecretNames, enabled \in BOOLEAN :
        LET r == ensureAutoTLSAnnotation(cl, svc, secretName, enabled, routeAPIFound)
        IN TLSStep(routeAPIFound, cl, r.svc,
                   [fn |-> "ensureAutoTLSAnnotation", secretName |-> secretName,
                    enabled |-> enabled, needUpdate |-> r.needUpdate,
                    apiFound |-> routeAPIFound,
                    secretFound |-> secretName \in cl.secrets, pre |-> svc,
                    repeated |-> /\ last.fn = "ensureAutoTLSAnnotation"
                                 /\ last.secretName = secretName
                                 /\ last.enabled = enabled])

NextTLS ==
    \/ TLSSetRouteAPIFound
    \/ TLSNewService
    \/ TLSSetAnnotation
    \/ TLSCreateSecret
    \/ TLSEnsure

SpecTLS == Init /\ [][NextTLS]_vars

----------------------------------------------------------------------------
(* Actions of SpecHelper: calls of the store helpers and of the delete      *)
(* wrappers on a store that other actors change between the calls; the      *)
(* object handed to a helper may have been deleted in the meantime.         *)

HelperKeys == {svcKey, stsKey}

WrapperKeys == {rbKey, cmKey}

\* the objects the callers hand to the helpers
HelperObjects(key) ==
    LET obj == IF key.kind = "Service"
               THEN newService("", InstanceName, InstanceNamespace, component,
                               EmptyMap, EmptyMap)
               ELSE newStatefulSet("", InstanceName, InstanceNamespace, component, EmptyMap)
    IN {obj, [obj EXCEPT !.Spec = <<1>>]}

Helper(fn, key, obj, r) ==
    /\ store' = r.store
    /\ last' = [NoCall EXCEPT !.fn = fn, !.key = key, !.pre = store, !.calls = r.calls,
                              !.err = r.err, !.desired = obj]
    /\ UNCHANGED <<hist, built, prevBuilt, argocdVars, clusterVars>>

HelperCreate ==
    \E key \in HelperKeys, F \in SUBSET {"Create"} :
        \E obj \in HelperObjects(key) :
            IF key.kind = "Service"
            THEN Helper("CreateService", key, obj, CreateService(Ctx(store), obj, F))
            ELSE Helper("CreateStatefulSet", key, obj, CreateStatefulSet(Ctx(store), obj, F))

HelperUpdate ==
    \E key \in HelperKeys, F \in SUBSET {"Update.Get", "Update"} :
        \E obj \in HelperObjects(key) :
            IF key.kind = "Service"
            THEN Helper("UpdateService", key, obj, UpdateService(Ctx(store), obj, F))
            ELSE Helper("UpdateStatefulSet", key, obj, UpdateStatefulSet(Ctx(store), obj, F))

HelperDelete ==
    \E key \in HelperKeys, F \in SUBSET {"Delete.Get", "Delete", "Delete.Gone"} :
        IF key.kind = "Service"
        THEN Helper("DeleteService", key, Nil, DeleteService(Ctx(store), key, F))
        ELSE Helper("DeleteStatefulSet", key, Nil, DeleteStatefulSet(Ctx(store), key, F))

WrapperDelete ==
    \E key \in WrapperKeys, F \in SUBSET {"Delete.Get", "Delete", "Delete.Gone"} :
        IF key = rbKey
        THEN Helper("deleteRoleBinding", key, Nil,
                    deleteRoleBinding(Ctx(store), resourceName, InstanceNamespace, F))
        ELSE Helper("deleteConfigMap", key, Nil,
                    deleteConfigMap(Ctx(store), ArgoCDRedisHAConfigMapName,
                                    InstanceNamespace, F))

\* an earlier reconcile created the child
HelperExternalCreate ==
    \E key \in WrapperKeys :
        /\ store[key] = Nil
        /\ External([store EXCEPT ![key] = IF key = rbKey THEN DesiredRoleBinding
                                           ELSE DesiredConfigMap])

\* another actor deletes an object
HelperExternalDelete ==
    \E key \in HelperKeys \cup WrapperKeys :
        /\ store[key] # Nil
        /\ External([store EXCEPT ![key] = Nil])

NextHelper ==
    \/ HelperCreate
    \/ HelperUpdate
    \/ HelperDelete
    \/ WrapperDelete
    \/ HelperExternalCreate
    \/ HelperExternalDelete

SpecHelper == Init /\ [][NextHelper]_vars

----------------------------------------------------------------------------
(* Actions of SpecCluster: calls of the functions of package argocd on the  *)
(* version API flag and on the cluster config namespaces.  hist holds the   *)
(* answer of the most recent verification that returned no error, if any.   *)

NoClusterCall ==
    [fn |-> "none", err |-> NilErr, pre |-> FALSE, api |-> Nil, current |-> "",
     list |-> <<>>, result |-> FALSE]

ClusterStep(flag, e, verified, l) ==
    /\ versionAPIFound' = flag
    /\ environ' = e
    /\ hist' = verified
    /\ last' = l
    /\ UNCHANGED <<store, built, prevBuilt, argocdVars>>

Verified(api) == IF api.err = NilErr THEN <<api.found>> ELSE hist

CallVerifyVersionAPI ==
    \E api \in APIResponses :
        LET r == VerifyVersionAPI(versionAPIFound, api)
        IN ClusterStep(r.versionAPIFound, environ, Verified(api),
                       [NoClusterCall EXCEPT !.fn = "VerifyVersionAPI", !.err = r.err,
                                             !.pre = versionAPIFound, !.api = api])

CallInspectCluster ==
    \E api \in APIResponses :
        LET r == InspectCluster(versionAPIFound, api)
        IN ClusterStep(r.versionAPIFound, environ, Verified(api),
                       [NoClusterCall EXCEPT !.fn = "InspectCluster", !.err = r.err,
                                             !.pre = versionAPIFound, !.api = api])

CallIsVersionAPIAvailable ==
    ClusterStep(versionAPIFound, environ, hist,
                [NoClusterCall EXCEPT !.fn = "IsVersionAPIAvailable",
                                      !.pre = versionAPIFound,
                                      !.result = IsVersionAPIAvailable(versionAPIFound)])

\* os.Setenv(common.ArgoCDClusterConfigNamespacesEnvVar, ...)
Setenv ==
    \E e \in EnvValues :
        /\ e # environ
        /\ ClusterStep(versionAPIFound, e, hist, NoClusterCall)

CallIsClusterConfigNs ==
    \E current \in Currents, emptyList \in EmptyLists :
        ClusterStep(versionAPIFound, environ, hist,
                    [NoClusterCall EXCEPT
                        !.fn = "IsClusterConfigNs", !.current = current,
                        !.list = SplitList(GetClusterConfigNamespaces(environ), emptyList),
                        !.result = IsClusterConfigNs(environ, current, emptyList)])

NextCluster ==
    \/ CallVerifyVersionAPI
    \/ CallInspectCluster
    \/ CallIsVersionAPIAvailable
    \/ Setenv
    \/ CallIsClusterConfigNs

SpecCluster == Init /\ [][NextCluster]_vars

----------------------------------------------------------------------------
(* Vocabulary of the properties *)

Reconcilers == {"reconcileRoleBinding", "reconcileHAConfigMap"}

IsCall == last.fn \in Reconcilers

Calls == {last.calls[i] : i \in 1..Len(last.calls)}

Issued(op, key) == \E c \in Calls : c.op = op /\ c.key = key

IssuedOp(op) == \E c \in Calls : c.op = op

\* no call of the reconcile failed with an error other than NotFound
NoStoreError == \A c \in Calls : c.err \in {NilErr, NotFound}

\* the reads of the reconcile did not fail
ReadsOk == \A c \in Calls : c.op = "client.Get" => c.err # OtherErr

DeleteWrappers == {"deleteRoleBinding", "deleteRole"}

\* a delete of the object under key was attempted
DeleteAttempted(key) ==
    \E c \in Calls : c.op \in DeleteWrappers \cup {"client.Delete"} /\ c.key = key

\* hist[i] and hist[j] are successive calls of the same reconciler
Successive(i, j) ==
    /\ i < j
    /\ hist[i].fn \in Reconcilers
    /\ hist[j].fn = hist[i].fn
    /\ \A k \in (i + 1)..(j - 1) : hist[k].fn # hist[i].fn

----------------------------------------------------------------------------
(* Properties *)

\* C1: of two successive calls of a reconciler with no external change and no
\* store failure, the first of which finds the child absent and the parent not
\* terminating, the first returns Created and the second returns NoOp without
\* an error and without issuing a Create, Update or Delete.
C1_Idempotence ==
    \A i, j \in 1..Len(hist) :
        (Successive(i, j) /\ hist[i].preAbsent /\ ~hist[i].preTerm) =>
            /\ hist[i].outcome = "Created"
            /\ hist[j].outcome = "NoOp"
            /\ hist[j].err = NilErr
            /\ ~hist[j].wrote

C1_Witness ==
    \E i, j \in 1..Len(hist) :
        /\ Successive(i, j)
        /\ hist[i].fn = "reconcileHAConfigMap"
        /\ hist[i].preAbsent /\ ~hist[i].preTerm
        /\ hist[i].outcome = "Created"
        /\ hist[j].outcome = "NoOp"

\* C2: whenever the parent is marked for deletion (and the reads of the call
\* succeed), the reconcile attempts a Delete of the child it reconciles, and
\* returns Deleted when that child is absent.
C2_ParentTerminatingDeletesChild ==
    (IsCall /\ Terminating(last.pre) /\ ReadsOk) =>
        /\ DeleteAttempted(last.key)
        /\ (last.pre[last.key] = Nil => last.outcome = "Deleted")

\* C3: when reconcileRoleBinding fetched an existing roleBinding whose roleRef
\* differs from the desired one, it calls deleteRoleBinding on that object
\* (client.Delete unless the helper's own Get fails), issues neither Update nor
\* Create, and returns Deleted without an error, the object being gone, when
\* no store call fails with an error other than NotFound.
ImmutableDrift ==
    /\ last.fn = "reconcileRoleBinding"
    /\ last.existing # Nil
    /\ last.existing.RoleRef # last.desired.RoleRef

C3_ImmutableDriftDeletes ==
    ImmutableDrift =>
        /\ Issued("deleteRoleBinding", KeyOf(last.existing))
        /\ Issued("client.Delete", KeyOf(last.existing)) \/ ~ReadsOk
        /\ ~IssuedOp("client.Update")
        /\ ~IssuedOp("client.Create")
        /\ NoStoreError =>
              /\ last.outcome = "Deleted"
              /\ last.err = NilErr
              /\ store[KeyOf(last.existing)] = Nil

C3_Witness ==
    /\ ImmutableDrift
    /\ \E c \in Calls : c.op = "client.Delete" /\ c.err = NotFound
    /\ last.outcome = "Deleted"
    /\ store[rbKey] = Nil

\* C4: after the comparator ran over a table, every field of the table has the
\* desired value in the existing object; changed is true iff some field of the
\* table differed, and when none differed the existing object is unchanged.
Compared == IsCall /\ last.fields # <<>>

Fields == {last.fields[i] : i \in 1..Len(last.fields)}

C4_ComparatorCopiesForward ==
    Compared =>
        /\ \A f \in Fields : last.diffed[f] = last.desired[f]
        /\ last.changed <=> \E f \in Fields : last.existing[f] # last.desired[f]
        /\ ~last.changed => last.diffed = last.existing

C4_Witness ==
    /\ Compared
    /\ last.changed
    /\ \E f \in Fields : last.existing[f] # last.desired[f]
    /\ \E f \in Fields : last.existing[f] = last.desired[f]
    /\ \A f \in Fields : last.diffed[f] = last.desired[f]

\* C5: Build invokes every hook of the request once, in the order of the
\* request, whether or not earlier hooks failed; the object carries the effects
\* of the hooks that succeeded, and the error is non-nil iff some hook failed.
Built == built.fn # "none"

HookIds(ms) == [i \in 1..Len(ms) |-> ms[i].id]

Succeeds(h) == ~h.fails

C5_EveryHookRuns ==
    Built =>
        /\ built.invoked = HookIds(built.request.Mutations)
        /\ built.obj.Spec = HookIds(SelectSeq(built.request.Mutations, Succeeds))
        /\ built.err # NilError <=>
              \E i \in 1..Len(built.request.Mutations) : built.request.Mutations[i].fails

C5_Witness ==
    /\ Built
    /\ built.request.Mutations = Mutations(3, {2})
    /\ built.invoked = <<1, 2, 3>>
    /\ built.obj.Spec = <<1, 3>>
    /\ built.err.cause = 2

\* C6: the error Build returns describes the failure of every hook that failed.
Describes(err, hookErr) == err.cause = hookErr

C6_ErrorDescribesEveryFailure ==
    Built =>
        \A i \in 1..Len(built.request.Mutations) :
            built.request.Mutations[i].fails =>
                Describes(built.err, HookErr(built.request.Mutations[i]))

\* C7: Build uses a non-empty request name unchanged, and two Builds with an
\* empty name and the same parent name and component give the same name,
\* whatever their labels, annotations and hooks.
SameNameInputs ==
    /\ Built /\ prevBuilt.built
    /\ built.request.Name = "" /\ prevBuilt.Name = ""
    /\ built.request.InstanceName = prevBuilt.InstanceName
    /\ built.request.Component = prevBuilt.Component

C7_NameSelection ==
    /\ (Built /\ built.request.Name # "") => built.obj.Name = built.request.Name
    /\ SameNameInputs => built.obj.Name = prevBuilt.objName

C7_Witness ==
    /\ SameNameInputs
    /\ built.request.Labels # EmptyMap
    /\ built.request.Mutations # <<>>
    /\ built.obj.Name = prevBuilt.objName

\* C8: a reconcile on an empty store returns Created; the next one returns
\* NoOp; after an external actor flips a label of the child the next one
\* returns Updated and the stored labels are the desired ones; after the parent
\* is marked terminating the next one returns Deleted and the child is absent.
Scenario(i, n) ==
    /\ i + n <= Len(hist)
    /\ hist[i].fn \in Reconcilers
    /\ hist[i].preAbsent /\ ~hist[i].preTerm
    /\ n >= 1 => hist[i + 1].fn = hist[i].fn
    /\ n >= 3 => /\ hist[i + 2].fn = "ExternalFlipLabel"
                 /\ hist[i + 2].key = hist[i].key
                 /\ hist[i + 3].fn = hist[i].fn
    /\ n >= 5 => /\ hist[i + 4].fn = "MarkNamespaceTerminating"
                 /\ hist[i + 5].fn = hist[i].fn

C8_EndToEnd ==
    \A i \in 1..Len(hist) :
        /\ Scenario(i, 0) => hist[i].outcome = "Created"
        /\ Scenario(i, 1) => hist[i + 1].outcome = "NoOp"
        /\ Scenario(i, 3) => hist[i + 3].outcome = "Updated" /\ hist[i + 3].labelsOk
        /\ Scenario(i, 5) => hist[i + 5].outcome = "Deleted" /\ hist[i + 5].postAbsent

\* C9: when the parent is marked for deletion and the deletion the reconcile
\* attempts fails with an error other than NotFound, the reconcile returns
\* that failure.
C9_TerminatingDeleteFailureSurfaced ==
    (IsCall /\ Terminating(last.pre)) =>
        \A c \in Calls :
            (c.op \in DeleteWrappers /\ c.err \notin {NilErr, NotFound}) =>
                last.err # NilErr /\ last.outcome = "Failed"

\* C10: when setting the owner reference fails and the child was not found, the
\* reconcile still issues Create for the desired object and returns Created
\* when Create succeeds; an error it returns is never the one of
\* SetControllerReference.
AttachFailed == IsCall /\ last.ownerErr # NilErr

AbsentBranch == Call("client.Get", last.key, NotFound) \in Calls

C10_OwnerLinkBestEffort ==
    AttachFailed =>
        /\ AbsentBranch =>
              /\ Issued("client.Create", last.key)
              /\ Call("client.Create", last.key, NilErr) \in Calls =>
                    /\ last.outcome = "Created"
                    /\ last.err = NilErr
                    /\ store[last.key] = last.desired
        /\ last.err # NilErr =>
              \E c \in Calls : c.op # "SetControllerReference" /\ c.err = last.err

C10_Witness ==
    /\ AttachFailed
    /\ AbsentBranch
    /\ last.fn = "reconcileRoleBinding"
    /\ last.outcome = "Created"
    /\ store[last.key] # Nil
    /\ store[last.key].OwnerReferences = NoOwner

\* C11 (as claimed): within one reconcile each kind of store operation is
\* issued at most once on the child.
TimesIssued(op, key) ==
    Cardinality({i \in 1..Len(last.calls) :
                    last.calls[i].op = op /\ last.calls[i].key = key})

StoreOps == {"client.Get", "client.Create", "client.Update", "client.Delete"}

C11_EachKindAtMostOnce ==
    IsCall => \A op \in StoreOps : TimesIssued(op, last.key) <= 1

\* C11 (amended): within one reconcile Create, Update and Delete are each
\* issued at most once on every object and no store call that failed is issued
\* again; Get is issued at most twice on an object, the second time by the
\* Update* / Delete* helper ahead of its write, and only after the first Get
\* succeeded.
C11_NoRetry ==
    IsCall =>
        /\ \A key \in StoreKeys :
              /\ \A op \in Writes : TimesIssued(op, key) <= 1
              /\ TimesIssued("client.Get", key) <= 2
        /\ \A i, j \in 1..Len(last.calls) :
              (i < j /\ last.calls[i].op = last.calls[j].op
                     /\ last.calls[i].key = last.calls[j].key) =>
                  /\ last.calls[i].op = "client.Get"
                  /\ last.calls[i].err = NilErr

C11_Witness ==
    /\ IsCall
    /\ last.outcome = "Failed"
    /\ TimesIssued("client.Get", last.key) = 2
    /\ Call("client.Update", last.key, OtherErr) \in Calls
    /\ TimesIssued("client.Update", last.key) = 1

\* C12: the labels (and, for a Service, the annotations) of the built object
\* are the union of the defaults and the request's map, the request's value
\* winning on every key present in both; the call leaves the default map and
\* the request's map as they were.
MergedOnTop(merged, defaults, supplied) ==
    /\ DOMAIN merged = DOMAIN defaults \cup DOMAIN supplied
    /\ \A k \in DOMAIN supplied : merged[k] = supplied[k]
    /\ \A k \in DOMAIN defaults \ DOMAIN supplied : merged[k] = defaults[k]

DefaultLabels == LabelsForCluster(built.request.InstanceName, built.request.Component)

DefaultAnnotations ==
    AnnotationsForCluster(built.request.InstanceName, built.request.InstanceNamespace)

C12_MergePolicy ==
    Built =>
        /\ MergedOnTop(built.obj.Labels, DefaultLabels, built.request.Labels)
        /\ MergeMapsInputs(DefaultLabels, built.request.Labels)
              = <<DefaultLabels, built.request.Labels>>
        /\ built.fn = "RequestService" =>
              /\ MergedOnTop(built.obj.Annotations, DefaultAnnotations,
                             built.request.Annotations)
              /\ MergeMapsInputs(DefaultAnnotations, built.request.Annotations)
                    = <<DefaultAnnotations, built.request.Annotations>>

C12_Witness ==
    /\ Built
    /\ built.fn = "RequestService"
    /\ built.request.Component = "redis"
    /\ built.request.Labels # EmptyMap
    /\ built.request.Annotations # EmptyMap
    /\ built.obj.Labels["app.kubernetes.io/component"] = "server"
    /\ built.obj.Labels["app.kubernetes.io/instance"] = built.request.InstanceName
    /\ built.obj.Labels["team"] = "platform"
    /\ built.obj.Annotations["argocds.argoproj.io/name"] = "override"
    /\ built.obj.Annotations["argocds.argoproj.io/namespace"] = "argocd"

\* C13: a reconcile reads and writes no child object other than the one it
\* reconciles (the parent and the service account are its inputs), and two
\* reconciles of different keys give the same outcomes and the same store in
\* either order.
OwnKeyOnly ==
    IsCall => \A c \in Calls : c.key \in ChildKeys => c.key = last.key

Outcome(r) == <<r.outcome, r.err>>

OrderIndependent ==
    LET rb    == reconcileRoleBinding(store, {})
        cm    == reconcileHAConfigMap(store, {})
        rbcm  == reconcileHAConfigMap(rb.store, {})
        cmrb  == reconcileRoleBinding(cm.store, {})
    IN /\ rbcm.store = cmrb.store
       /\ Outcome(rb) = Outcome(cmrb)
       /\ Outcome(cm) = Outcome(rbcm)

C13_IndependentAcrossKeys == OwnKeyOnly /\ OrderIndependent

\* C14: after a Reconcile with Server.Route enabled the server route has TLS
\* termination passthrough and target port https when Server.Insecure is
\* false, edge and http when it is true, insecure-edge policy Redirect in both;
\* a Reconcile after the flag was flipped brings the existing route to the
\* configuration for the new value.
RouteFollows(insecure, route) ==
    /\ route # Nil
    /\ route.TLS.Termination =
          IF insecure THEN TLSTerminationEdge ELSE TLSTerminationPassthrough
    /\ route.TLS.InsecureEdgeTerminationPolicy = InsecureEdgeTerminationPolicyRedirect
    /\ route.Port.TargetPort = IF insecure THEN "http" ELSE "https"

\* hist[i], hist[i + 1], hist[i + 2] are a Reconcile, a flip of the flag and the next Reconcile
FlippedBetween(i) ==
    /\ i + 2 <= Len(hist)
    /\ hist[i].fn = "Reconcile"
    /\ hist[i + 1].fn = "SetInsecure"
    /\ hist[i + 2].fn = "Reconcile"

C14_RouteFollowsInsecure ==
    /\ \A i \in 1..Len(hist) :
          (hist[i].fn = "Reconcile" /\ cl.argoCD.RouteEnabled) =>
              RouteFollows(hist[i].Insecure, hist[i].route)
    /\ \A i \in 1..Len(hist) :
          FlippedBetween(i) =>
              /\ hist[i + 2].Insecure # hist[i].Insecure
              /\ hist[i + 2].route.TLS # hist[i].route.TLS
              /\ RouteFollows(hist[i + 2].Insecure, hist[i + 2].route)

C14_Witness ==
    \E i \in 1..Len(hist) :
        /\ FlippedBetween(i)
        /\ ~hist[i].Insecure
        /\ hist[i].route.TLS.Termination = TLSTerminationPassthrough
        /\ hist[i + 2].Insecure
        /\ hist[i + 2].route.TLS.Termination = TLSTerminationEdge
        /\ hist[i + 2].route.Port.TargetPort = "http"

\* C15: ensureAutoTLSAnnotation returns true exactly when it changed the
\* service, the change being the auto-TLS annotation added, set or removed; a
\* second call with the same arguments returns false and changes nothing.
EnsureCalled == last.fn = "ensureAutoTLSAnnotation"

OtherAnnotationsKept ==
    \A k \in (DOMAIN svc.Annotations \cup DOMAIN last.pre.Annotations)
                \ {AnnotationOpenShiftServiceCA} :
        /\ k \in DOMAIN svc.Annotations
        /\ k \in DOMAIN last.pre.Annotations
        /\ svc.Annotations[k] = last.pre.Annotations[k]

C15_ReportsUpdateIffChanged ==
    EnsureCalled =>
        /\ last.needUpdate <=> svc # last.pre
        /\ OtherAnnotationsKept
        /\ last.repeated => ~last.needUpdate /\ svc = last.pre
        /\ LET again == ensureAutoTLSAnnotation(cl, svc, last.secretName, last.enabled,
                                                routeAPIFound)
           IN ~again.needUpdate /\ again.svc = svc

C15_Witness ==
    /\ EnsureCalled
    /\ last.repeated
    /\ last.enabled
    /\ ~last.needUpdate
    /\ AnnotationOpenShiftServiceCA \in DOMAIN svc.Annotations
    /\ svc.Annotations[AnnotationOpenShiftServiceCA] = last.secretName
    /\ ~last.secretFound

\* C16: with enabled = true the annotation is set, to the given secret name,
\* only if the route API is available and no secret of that name exists; when
\* the route API is unavailable or the secret exists the service is left as it
\* was and the call returns false.
AnnotationSet ==
    /\ AnnotationOpenShiftServiceCA \in DOMAIN svc.Annotations
    /\ svc.Annotations # last.pre.Annotations

InSyncCandidate ==
    /\ IsCall
    /\ last.pre[last.key] # Nil
    /\ ~Terminating(last.pre)
    /\ last.desired # Nil
    /\ last.buildErr = NilError
    /\ SameImmutable(last.pre[last.key], last.desired)

UpdateOf(err) == Call("client.Update", last.key, err)

C17_UpdateOnlyOnDrift ==
    /\ (InSyncCandidate /\ ReadsOk) => Compared
    /\ (IsCall /\ IssuedOp("client.Update")) => Compared /\ last.changed
    /\ (Compared /\ ~last.changed) =>
          /\ ~Wrote(last.calls)
          /\ last.outcome = "NoOp"
          /\ last.err = NilErr
          /\ store = last.pre
    /\ (Compared /\ last.changed) =>
          /\ ~IssuedOp("client.Create") /\ ~IssuedOp("client.Delete")
          /\ TimesIssued("client.Update", last.key) <= 1
          /\ ReadsOk => TimesIssued("client.Update", last.key) = 1
          /\ UpdateOf(NilErr) \in Calls =>
                /\ last.outcome = "Updated"
                /\ last.err = NilErr
                /\ store[last.key] = last.diffed
                /\ \A f \in Fields : store[last.key][f] = last.desired[f]
          /\ UpdateOf(NilErr) \notin Calls =>
                /\ last.outcome = "Failed"
                /\ last.err # NilErr
                /\ store = last.pre

C17_Witness ==
    /\ InSyncCandidate
    /\ Compared /\ last.changed
    /\ last.fn = "reconcileRoleBinding"
    /\ UpdateOf(NilErr) \in Calls
    /\ last.outcome = "Updated"
    /\ last.pre[last.key].Subjects # last.desired.Subjects
    /\ store[last.key].Subjects = last.desired.Subjects

\* C18: a NotFound of the reconcile's Get of the child selects the create
\* branch and is not returned; any other error of that Get is returned and no
\* write is issued; an error of Create or Update is returned as a failure.
Fetches == {i \in 1..Len(last.calls) :
               last.calls[i].op = "client.Get" /\ last.calls[i].key = last.key}

\* the result of the reconcile's own Get of the child, the first on its key
FetchErr == last.calls[CHOOSE i \in Fetches : \A j \in Fetches : i <= j].err

FailedWrites ==
    {c \in Calls : c.op \in {"client.Create", "client.Update"} /\ c.err # NilErr}

C18_StoreErrorHandling ==
    IsCall =>
        /\ (Fetches # {} /\ FetchErr = NotFound) =>
              /\ Issued("client.Create", last.key)
              /\ ~IssuedOp("client.Update") /\ ~IssuedOp("client.Delete")
              /\ last.err # NotFound
              /\ last.err = NilErr <=> last.outcome = "Created"
        /\ (Fetches # {} /\ FetchErr = OtherErr) =>
              /\ last.outcome = "Failed"
              /\ last.err = OtherErr
              /\ ~Wrote(last.calls)
              /\ store = last.pre
        /\ \A c \in FailedWrites :
              /\ last.outcome = "Failed"
              /\ last.err = c.err
              /\ store = last.pre

C18_Witness ==
    /\ IsCall
    /\ last.fn = "reconcileRoleBinding"
    /\ Fetches # {} /\ FetchErr = NotFound
    /\ Call("client.Create", last.key, OtherErr) \in Calls
    /\ last.outcome = "Failed"
    /\ last.err = OtherErr

\* C19: three successive reconciles with no external change and no store
\* failure, the first of which finds the child with a roleRef other than the
\* desired one (the parent not terminating), return Deleted, leaving the child
\* absent, then Created, the stored child having the desired roleRef, then
\* NoOp.
C19_ImmutableDriftRecovery ==
    \A i, j, k \in 1..Len(hist) :
        (Successive(i, j) /\ Successive(j, k) /\ hist[i].preDrift /\ ~hist[i].preTerm) =>
            /\ hist[i].outcome = "Deleted" /\ hist[i].err = NilErr
            /\ hist[i].postAbsent
            /\ hist[j].outcome = "Created" /\ hist[j].err = NilErr
            /\ ~hist[j].postAbsent /\ ~hist[j].postDrift
            /\ hist[k].outcome = "NoOp" /\ hist[k].err = NilErr
            /\ ~hist[k].wrote

C19_Witness ==
    /\ Len(hist) >= 3
    /\ Successive(1, 2) /\ Successive(2, 3)
    /\ hist[1].fn = "reconcileRoleBinding"
    /\ hist[1].preDrift /\ ~hist[1].preTerm
    /\ hist[1].outcome = "Deleted"
    /\ hist[2].outcome = "Created"
    /\ hist[3].outcome = "NoOp"
    /\ store[rbKey] # Nil
    /\ store[rbKey].RoleRef = DesiredRoleBinding.RoleRef

\* C20: a reconcile that reads the parent and finds it marked for deletion
\* issues neither Create nor Update, does not fetch the child and runs no
\* comparison.
ObservedTerminating ==
    /\ IsCall
    /\ Terminating(last.pre)
    /\ Call("client.Get", nsKey, NilErr) \in Calls

C20_NoWritesWhileTerminating ==
    ObservedTerminating =>
        /\ ~IssuedOp("client.Create")
        /\ ~IssuedOp("client.Update")
        /\ ~Issued("client.Get", last.key)
        /\ last.existing = Nil
        /\ last.fields = <<>>

C20_Witness ==
    /\ ObservedTerminating
    /\ last.fn = "reconcileRoleBinding"
    /\ IssuedOp("deleteRole")
    /\ store[rbKey] # Nil
    /\ store[rbKey].Subjects # DesiredRoleBinding.Subjects
    /\ last.outcome = "Deleted"

\* C21: a reconcile that returns NoOp or Updated leaves the owner references
\* of the stored child as they were fetched, whether they are missing, name
\* another owner, or differ from the ones attached to the desired object; a
\* difference in the owner references alone leads to no Update.
ExistingPath == IsCall /\ last.outcome \in {"NoOp", "Updated"}

OwnerMismatch ==
    /\ Compared
    /\ last.existing.OwnerReferences # InstanceRef

C21_OwnerLinkNotDrift ==
    /\ ExistingPath =>
          /\ last.existing # Nil
          /\ store[last.key] # Nil
          /\ store[last.key].OwnerReferences = last.existing.OwnerReferences
          /\ store[last.key].OwnerReferences = last.pre[last.key].OwnerReferences
    /\ Compared => "OwnerReferences" \notin Fields
    /\ (OwnerMismatch /\ \A f \in Fields : last.existing[f] = last.desired[f]) =>
          /\ ~last.changed
          /\ ~Wrote(last.calls)
          /\ last.outcome = "NoOp"
          /\ store = last.pre

C21_Witness ==
    /\ ExistingPath
    /\ last.fn = "reconcileHAConfigMap"
    /\ last.outcome = "Updated"
    /\ last.desired.OwnerReferences = InstanceRef
    /\ last.existing.OwnerReferences = ForeignOwner
    /\ store[cmKey].OwnerReferences = ForeignOwner
    /\ store[cmKey].Labels = last.desired.Labels

\* C22: on the existing-object path the desired object leaves the comparator
\* and the update as it was handed to them, and values flow from desired to
\* existing only; relative to Build the desired object differs at most in the
\* owner references (reconcileHAConfigMap attaches them before the fetch).
FetchedExisting == IsCall /\ last.existing # Nil

C22_DesiredUnchangedByDiff ==
    FetchedExisting =>
        /\ last.desiredOut = last.desired
        /\ \A f \in DOMAIN last.built \ {"OwnerReferences"} : last.desiredOut[f] = last.built[f]
        /\ Compared =>
              \A f \in DOMAIN last.existing :
                 last.diffed[f] = IF f \in Fields THEN last.desired[f] ELSE last.existing[f]

\* C22 as stated: after a call on the existing-object path every field of the
\* desired object has the value Build gave it.
C22_DesiredAsBuilt == FetchedExisting => last.desiredOut = last.built

C22_Witness ==
    /\ FetchedExisting
    /\ last.fn = "reconcileHAConfigMap"
    /\ last.outcome = "Updated"
    /\ last.built.OwnerReferences = NoOwner
    /\ last.desiredOut.OwnerReferences = InstanceRef
    /\ last.existing.Data # last.desired.Data
    /\ last.desiredOut.Data = last.built.Data
    /\ store[cmKey].Data = last.built.Data

\* C23: a reconcile whose Build returns an error returns a failure without
\* having issued a Get, Create, Update or Delete (nor any other call), and
\* leaves the store as it was.
BuildFailed == IsCall /\ last.buildErr # NilError

C23_BuildFailureAborts ==
    BuildFailed =>
        /\ last.outcome = "Failed"
        /\ last.err = MutationFailed
        /\ last.calls = <<>>
        /\ last.existing = Nil
        /\ store = last.pre

C23_Witness ==
    /\ BuildFailed
    /\ last.fn = "reconcileHAConfigMap"
    /\ last.outcome = "Failed"
    /\ last.calls = <<>>
    /\ store[cmKey] # Nil
    /\ store[cmKey].Data # DesiredConfigMap.Data

\* C24: a reconcile issues at most one Create, Update or Delete, whatever the
\* path it takes and whether or not the call succeeds, and none when it
\* returns NoOp.
WriteCalls == {i \in 1..Len(last.calls) : last.calls[i].op \in Writes}

C24_AtMostOneWrite ==
    IsCall =>
        /\ Cardinality(WriteCalls) <= 1
        /\ last.outcome = "NoOp" => WriteCalls = {}
        /\ WriteCalls = {} => store = last.pre

C24_Witness ==
    /\ IsCall
    /\ last.fn = "reconcileRoleBinding"
    /\ ImmutableDrift
    /\ last.pre[roleKey] # Nil
    /\ Cardinality(WriteCalls) = 1
    /\ Issued("client.Delete", rbKey)
    /\ last.outcome = "Deleted"
    /\ store[roleKey] # Nil

\* C25: UpdateService and UpdateStatefulSet first Get the object under its
\* name and namespace; when that Get fails, with NotFound or otherwise, they
\* return its error without a client.Update and leave the store as it is: an
\* object that is absent when the helper is called stays absent.
UpdateHelpers == {"UpdateService", "UpdateStatefulSet"}

HelperGetErr == last.calls[1].err

C25_UpdateNeverCreates ==
    last.fn \in UpdateHelpers =>
        /\ last.key = KeyOf(last.desired)
        /\ last.calls[1].op = "client.Get" /\ last.calls[1].key = last.key
        /\ HelperGetErr # NilErr =>
              /\ last.err = HelperGetErr
              /\ Len(last.calls) = 1
              /\ store = last.pre
        /\ HelperGetErr = NilErr =>
              /\ Issued("client.Update", last.key)
              /\ (last.err = NilErr => store[last.key] = last.desired)
        /\ last.pre[last.key] = Nil =>
              /\ last.err # NilErr
              /\ ~IssuedOp("client.Update") /\ ~IssuedOp("client.Create")
              /\ store[last.key] = Nil

C25_Witness ==
    /\ last.fn = "UpdateStatefulSet"
    /\ last.pre[stsKey] = Nil
    /\ HelperGetErr = NotFound
    /\ last.err = NotFound
    /\ store[stsKey] = Nil
    /\ store[svcKey] # Nil

\* C26: the Delete helpers return nil without a client.Delete when the object
\* is absent and return every other error of their Get or Delete; the
\* wrappers deleteRoleBinding and deleteConfigMap return nil also when
\* client.Delete answers NotFound because another actor removed the object
\* after the helper's Get, and return every other error of the Get or Delete.
DeleteHelpers == {"DeleteService", "DeleteStatefulSet"}

DeleteWrapperFns == {"deleteRoleBinding", "deleteConfigMap"}

DeleteOf(err) == Call("client.Delete", last.key, err)

C26_DeleteTolerant ==
    /\ last.fn \in DeleteHelpers \cup DeleteWrapperFns =>
          /\ last.calls[1].op = "client.Get" /\ last.calls[1].key = last.key
          /\ HelperGetErr = NotFound <=> (last.pre[last.key] = Nil /\ HelperGetErr # OtherErr)
          /\ HelperGetErr = NotFound =>
                /\ last.err = NilErr
                /\ ~IssuedOp("client.Delete")
                /\ store = last.pre
          /\ HelperGetErr = OtherErr =>
                /\ last.err = OtherErr
                /\ ~IssuedOp("client.Delete")
                /\ store = last.pre
          /\ HelperGetErr = NilErr => Issued("client.Delete", last.key)
          /\ DeleteOf(OtherErr) \in Calls => last.err = OtherErr /\ store = last.pre
          /\ DeleteOf(NilErr) \in Calls => last.err = NilErr /\ store[last.key] = Nil
          /\ last.err = NilErr => store[last.key] = Nil
    /\ last.fn \in DeleteHelpers =>
          (DeleteOf(NotFound) \in Calls => last.err = NotFound)
    /\ last.fn \in DeleteWrapperFns =>
          /\ (DeleteOf(NotFound) \in Calls => last.err = NilErr)
          /\ last.err # NotFound

C26_Witness ==
    /\ last.fn = "deleteConfigMap"
    /\ last.pre[cmKey] # Nil
    /\ HelperGetErr = NilErr
    /\ DeleteOf(NotFound) \in Calls
    /\ last.err = NilErr
    /\ store[cmKey] = Nil

\* C27: IsVersionAPIAvailable is false until a verification returned no
\* error and from then on gives the answer of the most recent verification
\* that returned no error, whether VerifyVersionAPI or InspectCluster made
\* it; a verification that returns an error leaves the flag as it was, is
\* returned by VerifyVersionAPI and is not returned by InspectCluster.
Verifications == {"VerifyVersionAPI", "InspectCluster"}

LastVerified == hist # <<>> /\ hist[1]

C27_VersionAPIFlag ==
    /\ IsVersionAPIAvailable(versionAPIFound) = LastVerified
    /\ last.fn = "IsVersionAPIAvailable" => last.result = LastVerified
    /\ last.fn \in Verifications =>
          /\ last.api.err # NilErr => versionAPIFound = last.pre
          /\ last.api.err = NilErr => versionAPIFound = last.api.found
    /\ last.fn = "VerifyVersionAPI" => last.err = last.api.err
    /\ last.fn = "InspectCluster" => last.err = NilErr

C27_Witness ==
    /\ last.fn = "InspectCluster"
    /\ last.api.err # NilErr
    /\ ~last.api.found
    /\ last.pre
    /\ last.err = NilErr
    /\ versionAPIFound
    /\ hist = <<TRUE>>

\* C28: IsClusterConfigNs(current) is true iff the list of configured
\* namespaces has an entry and either its first entry is "*" or one of its
\* entries is current; a "*" further down the list is no wildcard.
Entries == {last.list[i] : i \in 1..Len(last.list)}

C28_ClusterConfigNs ==
    last.fn = "IsClusterConfigNs" =>
        /\ last.result <=>
              /\ Len(last.list) > 0
              /\ last.list[1] = "*" \/ last.current \in Entries
        /\ last.list = <<>> => ~last.result
        /\ ("*" \in Entries /\ last.list[1] # "*" /\ last.current \notin Entries) =>
              ~last.result

C28_Witness ==
    /\ last.fn = "IsClusterConfigNs"
    /\ environ = <<"ns1", ",", "*">>
    /\ last.list = <<"ns1", "*">>
    /\ last.current = "ns2"
    /\ ~last.result

====
